---- MODULE Spec2Model ----
(***************************************************************************)
(* A model of raftLog (log.go): the log of one raft node, made of a stable *)
(* Storage prefix and an unstable in-memory tail, with the commit / apply  *)
(* cursors and the leaderTerm that guards appends and commit advancement.  *)
(*                                                                         *)
(* An entry is [Index, Term]; payloads do not influence any decision of    *)
(* log.go.  All indices and terms stay far below 2^64, and the only        *)
(* subtractions (offset-1, ents[0].Index-1, firstIndex-1, ci-offset) are   *)
(* on values >= 1 resp. ci >= offset, so uint64 never wraps here.          *)
(***************************************************************************)
EXTENDS Integers, Sequences, FiniteSets, TLC

\* ---- bounds of the model ------------------------------------------------
MaxIndex == 2        \* log indices are 1..MaxIndex
MaxTerm == 2         \* terms are 1..MaxTerm (0 = "no term")
MaxEnts == 2         \* length of the entry slice of one append
MaxSize == 1         \* byte sizes handed to acceptApplying / appliedTo

Min(a, b) == IF a < b THEN a ELSE b
Max(a, b) == IF a > b THEN a ELSE b

NoPanic == ""

ErrNil == "nil"
ErrCompacted == "ErrCompacted"
ErrUnavailable == "ErrUnavailable"

Entry(i, t) == [Index |-> i, Term |-> t]

\* ents with consecutive indices first, first+1, ... and the given terms
MkEnts(first, terms) == [k \in 1..Len(terms) |-> Entry(first + k - 1, terms[k])]

TermSeqs(n) == UNION {[1..k -> 1..MaxTerm] : k \in 0..n}

VARIABLES
  storage,   \* the Storage collaborator: [snap: [Index, Term], ents: Seq(Entry)]
  l,         \* the raftLog struct, with its unstable struct as a field
  call,      \* the last operation called: [op, ok], ok its bool result
             \* (maybeAppend, maybeCommit) or that it did not panic
  fatal,     \* the message of the logger.Panicf that ended the program, or ""
  validated  \* every slice passed to append and maybeAppend so far had terms
             \* that do not regress (the validation append leaves to its caller)

vars == <<storage, l, call, fatal, validated>>

\* ---- Storage (MemoryStorage; read side as in spec 4.2) --------------------
Storage_FirstIndex == storage.snap.Index + 1

Storage_LastIndex == storage.snap.Index + Len(storage.ents)

Storage_Term(i) ==
  IF i < storage.snap.Index THEN [t |-> 0, err |-> ErrCompacted]
  ELSE IF i > Storage_LastIndex THEN [t |-> 0, err |-> ErrUnavailable]
  ELSE IF i = storage.snap.Index THEN [t |-> storage.snap.Term, err |-> ErrNil]
  ELSE [t |-> storage.ents[i - storage.snap.Index].Term, err |-> ErrNil]

\* the driver persists entries: entries at and after ents[0].Index are
\* replaced, entries already compacted are skipped, a gap is refused
Storage_Append(s, ents) ==
  LET first == s.snap.Index + 1
      last == ents[1].Index + Len(ents) - 1
      cut == IF first > ents[1].Index
             THEN SubSeq(ents, first - ents[1].Index + 1, Len(ents))
             ELSE ents
      keep == cut[1].Index - first
  IN IF Len(ents) = 0 \/ last < first THEN s
     ELSE IF keep > Len(s.ents) THEN s
     ELSE [s EXCEPT !.ents = SubSeq(s.ents, 1, keep) \o cut]

\* the driver persists a snapshot; an out-of-date snapshot is refused
Storage_ApplySnapshot(s, snap) ==
  IF snap.Index <= s.snap.Index THEN s
  ELSE [snap |-> snap, ents |-> <<>>]

\* ---- unstable (spec 4.1) --------------------------------------------------
unstable_maybeFirstIndex(u) ==
  IF u.snapshot # <<>>
  THEN [i |-> u.snapshot[1].Index + 1, ok |-> TRUE]
  ELSE [i |-> 0, ok |-> FALSE]

unstable_maybeLastIndex(u) ==
  IF Len(u.entries) # 0
  THEN [i |-> u.offset + Len(u.entries) - 1, ok |-> TRUE]
  ELSE IF u.snapshot # <<>>
  THEN [i |-> u.snapshot[1].Index, ok |-> TRUE]
  ELSE [i |-> 0, ok |-> FALSE]

unstable_maybeTerm(u, i) ==
  IF i >= u.offset /\ i <= u.offset + Len(u.entries) - 1
  THEN [t |-> u.entries[i - u.offset + 1].Term, ok |-> TRUE]
  ELSE IF u.snapshot # <<>> /\ u.snapshot[1].Index = i
  THEN [t |-> u.snapshot[1].Term, ok |-> TRUE]
  ELSE [t |-> 0, ok |-> FALSE]

unstable_nextEntries(u) ==
  SubSeq(u.entries, u.offsetInProgress - u.offset + 1, Len(u.entries))

unstable_nextSnapshot(u) ==
  IF u.snapshot # <<>> /\ ~u.snapshotInProgress THEN u.snapshot ELSE <<>>

unstable_acceptInProgress(u) ==
  [u EXCEPT !.offsetInProgress = u.offset + Len(u.entries),
            !.snapshotInProgress = (u.snapshot # <<>>)]

\* stableTo without the check of the term (a faulty variant)
unstable_stableTo_noTermCheck(u, i, t) ==
  IF i < u.offset \/ i > u.offset + Len(u.entries) - 1 THEN u
  ELSE [u EXCEPT
          !.snapshot = IF u.snapshot # <<>> /\ i >= u.snapshot[1].Index
                       THEN <<>> ELSE u.snapshot,
          !.entries = SubSeq(u.entries, i - u.offset + 2, Len(u.entries)),
          !.offset = i + 1,
          !.offsetInProgress = Max(u.offsetInProgress, i + 1)]

unstable_stableTo(u, i, t) ==
  IF i < u.offset \/ i > u.offset + Len(u.entries) - 1 THEN u
  ELSE IF u.entries[i - u.offset + 1].Term # t THEN u
  ELSE [u EXCEPT
          !.snapshot = IF u.snapshot # <<>> /\ i >= u.snapshot[1].Index
                       THEN <<>> ELSE u.snapshot,
          !.entries = SubSeq(u.entries, i - u.offset + 2, Len(u.entries)),
          !.offset = i + 1,
          !.offsetInProgress = Max(u.offsetInProgress, i + 1)]

unstable_stableSnapTo(u, i) ==
  IF u.snapshot # <<>> /\ u.snapshot[1].Index = i
  THEN [u EXCEPT !.snapshot = <<>>, !.snapshotInProgress = FALSE]
  ELSE u

unstable_restore(u, s) ==
  [entries |-> <<>>, offset |-> s.Index + 1, offsetInProgress |-> s.Index + 1,
   snapshot |-> <<s>>, snapshotInProgress |-> FALSE]

\* the third case needs after <= offset+len(entries): slicing past the end
\* of entries is out of range
unstable_truncateGap(u, ents) ==
  Len(ents) > 0 /\ ents[1].Index > u.offset + Len(u.entries)

unstable_truncateAndAppend(u, ents) ==
  LET after == ents[1].Index IN
  IF after = u.offset + Len(u.entries)
  THEN [u EXCEPT !.entries = u.entries \o ents,
                 !.offsetInProgress = Min(u.offsetInProgress, after)]
  ELSE IF after <= u.offset
  THEN [u EXCEPT !.entries = ents, !.offset = after,
                 !.offsetInProgress = Min(u.offsetInProgress, after)]
  ELSE [u EXCEPT !.entries = SubSeq(u.entries, 1, after - u.offset) \o ents,
                 !.offsetInProgress = Min(u.offsetInProgress, after)]

\* ---- raftLog (log.go) ------------------------------------------------------
firstIndex(lg) ==
  LET r == unstable_maybeFirstIndex(lg.unstable)
  IN IF r.ok THEN r.i ELSE Storage_FirstIndex

lastIndex(lg) ==
  LET r == unstable_maybeLastIndex(lg.unstable)
  IN IF r.ok THEN r.i ELSE Storage_LastIndex

\* term returns (t, err)
\* term that does not look into the unstable log (a faulty variant)
term_storageOnly(lg, i) ==
  IF i + 1 < firstIndex(lg) THEN [t |-> 0, err |-> ErrCompacted]
  ELSE IF i > lastIndex(lg) THEN [t |-> 0, err |-> ErrUnavailable]
  ELSE Storage_Term(i)

term(lg, i) ==
  LET r == unstable_maybeTerm(lg.unstable, i) IN
  IF r.ok THEN [t |-> r.t, err |-> ErrNil]
  ELSE IF i + 1 < firstIndex(lg) THEN [t |-> 0, err |-> ErrCompacted]
  ELSE IF i > lastIndex(lg) THEN [t |-> 0, err |-> ErrUnavailable]
  ELSE Storage_Term(i)

zeroTermOnOutOfBounds(r) == IF r.err = ErrNil THEN r.t ELSE 0

\* matchTerm that takes the zero term of an error for a term (a faulty variant)
matchTerm_zeroOnError(lg, i, t) == zeroTermOnOutOfBounds(term(lg, i)) = t

matchTerm(lg, i, t) ==
  LET r == term(lg, i) IN IF r.err # ErrNil THEN FALSE ELSE r.t = t

\* the index of the first entry of ents that the log does not match, or 0
\* findConflict that finds no conflict (a faulty variant)
findConflict_none(lg, ents) == 0

findConflict(lg, ents) ==
  LET bad == {k \in 1..Len(ents) : ~matchTerm(lg, ents[k].Index, ents[k].Term)}
  IN IF bad = {} THEN 0
     ELSE ents[CHOOSE k \in bad : \A j \in bad : k <= j].Index

\* findConflictByTerm that does not step down past a larger term (a faulty
\* variant)
findConflictByTerm_noStep(lg, index, t) ==
  IF index > 0 THEN <<index, zeroTermOnOutOfBounds(term(lg, index))>> ELSE <<0, 0>>

RECURSIVE findConflictByTerm(_, _, _)
findConflictByTerm(lg, index, t) ==
  IF index > 0
  THEN LET r == term(lg, index) IN
       IF r.err # ErrNil THEN <<index, 0>>
       ELSE IF r.t <= t THEN <<index, r.t>>
       ELSE findConflictByTerm(lg, index - 1, t)
  ELSE <<0, 0>>

\* commitTo that takes the commit index of any leader (a faulty variant)
commitTo_anyLeader(lg, leaderTerm, tocommit) ==
  LET c == Min(tocommit, lastIndex(lg))
  IN IF c > lg.committed THEN [lg EXCEPT !.committed = c] ELSE lg

\* commitTo without the clamp to lastIndex() (a faulty variant)
commitTo_unclamped(lg, leaderTerm, tocommit) ==
  IF leaderTerm # lg.leaderTerm THEN lg
  ELSE IF tocommit > lg.committed THEN [lg EXCEPT !.committed = tocommit] ELSE lg

commitTo(lg, leaderTerm, tocommit) ==
  IF leaderTerm # lg.leaderTerm THEN lg
  ELSE LET c == Min(tocommit, lastIndex(lg))
       IN IF c > lg.committed THEN [lg EXCEPT !.committed = c] ELSE lg

\* append without the check against committed (a faulty variant)
append_uncheckedCommitted(lg, leaderTerm, ents) ==
  IF leaderTerm < lg.leaderTerm
  THEN [lg |-> lg, panic |-> NoPanic, ret |-> 0]
  ELSE IF Len(ents) = 0
  THEN [lg |-> lg, panic |-> NoPanic, ret |-> 0]
  ELSE IF ents[Len(ents)].Term > leaderTerm
  THEN [lg |-> lg, panic |-> "append a higher term", ret |-> 0]
  ELSE IF unstable_truncateGap(lg.unstable, ents)
  THEN [lg |-> lg, panic |-> "unstable slice out of bound", ret |-> 0]
  ELSE [lg |-> [lg EXCEPT !.leaderTerm = leaderTerm,
                          !.unstable = unstable_truncateAndAppend(lg.unstable, ents)],
        panic |-> NoPanic, ret |-> 0]

\* append returns the log, the message it panicked with, and the returned
\* last index
append(lg, leaderTerm, ents) ==
  IF leaderTerm < lg.leaderTerm
  THEN [lg |-> lg, panic |-> NoPanic, ret |-> lastIndex(lg)]
  ELSE IF Len(ents) = 0
  THEN [lg |-> lg, panic |-> NoPanic, ret |-> lastIndex(lg)]
  ELSE IF ents[1].Index - 1 < lg.committed
  THEN [lg |-> lg, panic |-> "after is out of range", ret |-> 0]
  ELSE IF ents[Len(ents)].Term > leaderTerm
  THEN [lg |-> lg, panic |-> "append a higher term", ret |-> 0]
  ELSE IF unstable_truncateGap(lg.unstable, ents)
  THEN [lg |-> [lg EXCEPT !.leaderTerm = leaderTerm],
        panic |-> "unstable slice out of bound", ret |-> 0]
  ELSE LET n == [lg EXCEPT !.leaderTerm = leaderTerm,
                           !.unstable = unstable_truncateAndAppend(lg.unstable, ents)]
       IN [lg |-> n, panic |-> NoPanic, ret |-> lastIndex(n)]

\* maybeAppend returns the log, whether it panicked, and (lastnewi, ok)
\* maybeAppend that appends the entries also when none conflicts (a faulty
\* variant)
maybeAppend_alwaysAppend(lg, leaderTerm, prevIndex, prevTerm, cmt, ents) ==
  IF leaderTerm < lg.leaderTerm \/ ~matchTerm(lg, prevIndex, prevTerm)
  THEN [lg |-> lg, panic |-> NoPanic, lastnewi |-> 0, ok |-> FALSE]
  ELSE LET lastnewi == prevIndex + Len(ents)
           ci == findConflict(lg, ents)
           a == append(lg, leaderTerm, IF ci = 0 THEN ents
                       ELSE SubSeq(ents, ci - prevIndex, Len(ents)))
       IN IF ci # 0 /\ ci <= lg.committed
          THEN [lg |-> lg, panic |-> "conflict with committed entry",
                lastnewi |-> 0, ok |-> FALSE]
          ELSE IF a.panic # NoPanic
          THEN [lg |-> a.lg, panic |-> a.panic, lastnewi |-> 0, ok |-> FALSE]
          ELSE [lg |-> commitTo(a.lg, leaderTerm, Min(cmt, lastnewi)),
                panic |-> NoPanic, lastnewi |-> lastnewi, ok |-> TRUE]

maybeAppend(lg, leaderTerm, prevIndex, prevTerm, cmt, ents) ==
  IF leaderTerm < lg.leaderTerm
  THEN [lg |-> lg, panic |-> NoPanic, lastnewi |-> 0, ok |-> FALSE]
  ELSE IF ~matchTerm(lg, prevIndex, prevTerm)
  THEN [lg |-> lg, panic |-> NoPanic, lastnewi |-> 0, ok |-> FALSE]
  ELSE
    LET lastnewi == prevIndex + Len(ents)
        ci == findConflict(lg, ents)
        offset == prevIndex + 1
    IN IF ci = 0
       THEN [lg |-> commitTo(lg, leaderTerm, Min(cmt, lastnewi)),
             panic |-> NoPanic, lastnewi |-> lastnewi, ok |-> TRUE]
       ELSE IF ci <= lg.committed
       THEN [lg |-> lg, panic |-> "conflict with committed entry",
             lastnewi |-> 0, ok |-> FALSE]
       ELSE IF ci - offset > Len(ents)
       THEN [lg |-> lg, panic |-> "index is out of range",
             lastnewi |-> 0, ok |-> FALSE]
       ELSE LET a == append(lg, leaderTerm, SubSeq(ents, ci - offset + 1, Len(ents)))
            IN IF a.panic # NoPanic
               THEN [lg |-> a.lg, panic |-> a.panic, lastnewi |-> 0, ok |-> FALSE]
               ELSE [lg |-> commitTo(a.lg, leaderTerm, Min(cmt, lastnewi)),
                     panic |-> NoPanic, lastnewi |-> lastnewi, ok |-> TRUE]

\* maxAppliableIndex that allows unstable entries always (a faulty variant)
maxAppliableIndex_committed(lg, allowUnstable) == lg.committed

maxAppliableIndex(lg, allowUnstable) ==
  IF ~allowUnstable THEN Min(lg.committed, lg.unstable.offset - 1)
  ELSE lg.committed

appliedTo(lg, i, size) ==
  IF lg.committed < i \/ i < lg.applied
  THEN [lg |-> lg, panic |-> "applied is out of range"]
  ELSE LET sz == IF lg.applyingEntsSize > size
                 THEN lg.applyingEntsSize - size ELSE 0
       IN [lg |-> [lg EXCEPT !.applied = i,
                             !.applying = Max(lg.applying, i),
                             !.applyingEntsSize = sz,
                             !.applyingEntsPaused = (sz >= lg.maxApplyingEntsSize)],
           panic |-> NoPanic]

\* acceptApplying that pauses on the size alone (a faulty variant)
acceptApplying_sizeOnly(lg, i, size, allowUnstable) ==
  IF lg.committed < i
  THEN [lg |-> lg, panic |-> "applying is out of range"]
  ELSE LET sz == lg.applyingEntsSize + size
       IN [lg |-> [lg EXCEPT !.applying = i,
                             !.applyingEntsSize = sz,
                             !.applyingEntsPaused = (sz >= lg.maxApplyingEntsSize)],
           panic |-> NoPanic]

acceptApplying(lg, i, size, allowUnstable) ==
  IF lg.committed < i
  THEN [lg |-> lg, panic |-> "applying is out of range"]
  ELSE LET sz == lg.applyingEntsSize + size
       IN [lg |-> [lg EXCEPT !.applying = i,
                             !.applyingEntsSize = sz,
                             !.applyingEntsPaused =
                                (sz >= lg.maxApplyingEntsSize
                                 \/ i < maxAppliableIndex(lg, allowUnstable))],
           panic |-> NoPanic]

stableTo(lg, i, t) == [lg EXCEPT !.unstable = unstable_stableTo(lg.unstable, i, t)]

stableSnapTo(lg, i) == [lg EXCEPT !.unstable = unstable_stableSnapTo(lg.unstable, i)]

nextUnstableEnts(lg) == unstable_nextEntries(lg.unstable)

acceptUnstable(lg) == [lg EXCEPT !.unstable = unstable_acceptInProgress(lg.unstable)]

\* maybeCommit returns the log and the returned bool
maybeCommit(lg, leaderTerm, maxIndex, t) ==
  IF maxIndex > lg.committed /\ t # 0
     /\ zeroTermOnOutOfBounds(term(lg, maxIndex)) = t
  THEN [lg |-> commitTo(lg, leaderTerm, maxIndex), ret |-> TRUE]
  ELSE [lg |-> lg, ret |-> FALSE]

\* restore that leaves committed as it was (a faulty variant)
restore_keepCommitted(lg, s) ==
  [lg EXCEPT !.unstable = unstable_restore(lg.unstable, s)]

restore(lg, s) ==
  [lg EXCEPT !.committed = s.Index,
             !.unstable = unstable_restore(lg.unstable, s)]

\* noLimit = math.MaxUint64: no sum of sizes in the model reaches it
noLimit == 1000000

\* ---- reading entries (log.go slice, nextCommittedEnts) ----------------------
\* every entry has the same encoding size
EntrySize == 2

entsSize(ents) == Len(ents) * EntrySize

\* entryEncodingSize is unsigned: a difference below zero wraps around
sizeSub(a, b) == (a - b) % (noLimit + 1)

\* limitSize: the longest prefix of total size <= maxSize, and never less than
\* one entry ("may return more if a single entry size exceeds the limit")
limitSize(ents, maxSize) ==
  IF Len(ents) = 0 THEN ents
  ELSE LET fits == {k \in 1..Len(ents) : entsSize(SubSeq(ents, 1, k)) <= maxSize}
           n == IF fits = {} THEN 1 ELSE CHOOSE k \in fits : \A j \in fits : j <= k
       IN SubSeq(ents, 1, n)

\* Storage.Entries(lo, hi, maxSize) returns (ents, err)
Storage_Entries(lo, hi, maxSize) ==
  IF lo < Storage_FirstIndex THEN [ents |-> <<>>, err |-> ErrCompacted]
  ELSE IF hi > Storage_LastIndex + 1 THEN [ents |-> <<>>, err |-> ErrUnavailable]
  ELSE [ents |-> limitSize(SubSeq(storage.ents, lo - storage.snap.Index,
                                  hi - 1 - storage.snap.Index), maxSize),
        err |-> ErrNil]

\* unstable.slice(lo, hi): the entries [lo, hi) of the unstable log
unstable_slice(u, lo, hi) == SubSeq(u.entries, lo - u.offset + 1, hi - u.offset)

\* mustCheckOutOfBounds returns the panic message, if any, and the error
mustCheckOutOfBounds(lg, lo, hi) ==
  IF lo > hi THEN [panic |-> "invalid slice", err |-> ErrNil]
  ELSE LET fi == firstIndex(lg)
           length == lastIndex(lg) + 1 - fi
       IN IF lo < fi THEN [panic |-> NoPanic, err |-> ErrCompacted]
          ELSE IF hi > fi + length
          THEN [panic |-> "slice out of bound", err |-> ErrNil]
          ELSE [panic |-> NoPanic, err |-> ErrNil]

\* slice returns the entries, the error, and the panic message, if any
slice(lg, lo, hi, maxSize) ==
  LET chk == mustCheckOutOfBounds(lg, lo, hi)
      u == lg.unstable
      cut == Min(hi, u.offset)
      st == Storage_Entries(lo, cut, maxSize)
      size == entsSize(st.ents)
      rest == limitSize(unstable_slice(u, u.offset, hi), sizeSub(maxSize, size))
  IN IF chk.panic # NoPanic \/ chk.err # ErrNil
     THEN [ents |-> <<>>, err |-> chk.err, panic |-> chk.panic]
     ELSE IF lo = hi THEN [ents |-> <<>>, err |-> ErrNil, panic |-> NoPanic]
     ELSE IF lo >= u.offset
     THEN [ents |-> limitSize(unstable_slice(u, lo, hi), maxSize),
           err |-> ErrNil, panic |-> NoPanic]
     ELSE IF st.err = ErrCompacted
     THEN [ents |-> <<>>, err |-> ErrCompacted, panic |-> NoPanic]
     ELSE IF st.err = ErrUnavailable
     THEN [ents |-> <<>>, err |-> ErrNil, panic |-> "is unavailable from storage"]
     ELSE IF hi <= u.offset \/ Len(st.ents) < cut - lo \/ size >= maxSize
     THEN [ents |-> st.ents, err |-> ErrNil, panic |-> NoPanic]
     ELSE IF Len(rest) = 1 /\ size + entsSize(rest) > maxSize
     THEN [ents |-> st.ents, err |-> ErrNil, panic |-> NoPanic]
     ELSE [ents |-> st.ents \o rest, err |-> ErrNil, panic |-> NoPanic]

\* hasNextOrInProgressSnapshot that sees only a snapshot not yet in progress (a
\* faulty variant)
hasNextOrInProgressSnapshot_nextOnly(lg) == unstable_nextSnapshot(lg.unstable) # <<>>

hasNextOrInProgressSnapshot(lg) == lg.unstable.snapshot # <<>>

\* nextCommittedEnts that begins one entry late (a faulty variant)
nextCommittedEnts_skipFirst(lg, allowUnstable) ==
  LET lo == lg.applying + 2
      hi == maxAppliableIndex(lg, allowUnstable) + 1
      maxSize == sizeSub(lg.maxApplyingEntsSize, lg.applyingEntsSize)
      r == slice(lg, lo, hi, maxSize)
  IN IF lg.applyingEntsPaused THEN [ents |-> <<>>, panic |-> NoPanic]
     ELSE IF hasNextOrInProgressSnapshot(lg) THEN [ents |-> <<>>, panic |-> NoPanic]
     ELSE IF lo >= hi THEN [ents |-> <<>>, panic |-> NoPanic]
     ELSE IF maxSize <= 0
     THEN [ents |-> <<>>, panic |-> "applying entry size not positive"]
     ELSE IF r.panic # NoPanic THEN [ents |-> <<>>, panic |-> r.panic]
     ELSE IF r.err # ErrNil
     THEN [ents |-> <<>>, panic |-> "unexpected error when getting unapplied entries"]
     ELSE [ents |-> r.ents, panic |-> NoPanic]

\* nextCommittedEnts returns the entries and the panic message, if any
nextCommittedEnts(lg, allowUnstable) ==
  LET lo == lg.applying + 1
      hi == maxAppliableIndex(lg, allowUnstable) + 1
      maxSize == sizeSub(lg.maxApplyingEntsSize, lg.applyingEntsSize)
      r == slice(lg, lo, hi, maxSize)
  IN IF lg.applyingEntsPaused THEN [ents |-> <<>>, panic |-> NoPanic]
     ELSE IF hasNextOrInProgressSnapshot(lg) THEN [ents |-> <<>>, panic |-> NoPanic]
     ELSE IF lo >= hi THEN [ents |-> <<>>, panic |-> NoPanic]
     ELSE IF maxSize <= 0
     THEN [ents |-> <<>>, panic |-> "applying entry size not positive"]
     ELSE IF r.panic # NoPanic THEN [ents |-> <<>>, panic |-> r.panic]
     ELSE IF r.err # ErrNil
     THEN [ents |-> <<>>, panic |-> "unexpected error when getting unapplied entries"]
     ELSE [ents |-> r.ents, panic |-> NoPanic]

hasNextCommittedEnts(lg, allowUnstable) ==
  IF lg.applyingEntsPaused THEN FALSE
  ELSE IF hasNextOrInProgressSnapshot(lg) THEN FALSE
  ELSE lg.applying + 1 < maxAppliableIndex(lg, allowUnstable) + 1

\* newLogWithSize: the log over a given storage
newLogWithSize(maxSize) ==
  [unstable |-> [entries |-> <<>>,
                 offset |-> Storage_LastIndex + 1,
                 offsetInProgress |-> Storage_LastIndex + 1,
                 snapshot |-> <<>>,
                 snapshotInProgress |-> FALSE],
   leaderTerm |-> Storage_Term(Storage_LastIndex).t,
   committed |-> Storage_FirstIndex - 1,
   applying |-> Storage_FirstIndex - 1,
   applied |-> Storage_FirstIndex - 1,
   maxApplyingEntsSize |-> maxSize,
   applyingEntsSize |-> 0,
   applyingEntsPaused |-> FALSE]

newLog == newLogWithSize(noLimit)

\* ---- the state machine -----------------------------------------------------
NoSnap == [Index |-> 0, Term |-> 0]

\* a Storage as the log may find it at construction: a snapshot and entries
\* after it, with terms that do not regress
InitStorages ==
  {[snap |-> NoSnap, ents |-> <<>>],
   [snap |-> NoSnap, ents |-> <<Entry(1, 1)>>],
   [snap |-> Entry(1, 1), ents |-> <<>>]}

Init ==
  /\ storage \in InitStorages
  /\ l = newLog
  /\ call = [op |-> "newLog", ok |-> TRUE]
  /\ fatal = NoPanic
  /\ validated = TRUE

\* the content of a slice is correct in the sense of the note in append: its
\* terms do not regress, from the term of the entry it is appended after
ValidSlice(lg, ents) ==
  \/ ents = <<>>
  \/ /\ \A k \in 1..(Len(ents) - 1) : ents[k].Term <= ents[k + 1].Term
     /\ LET prev == term(lg, ents[1].Index - 1)
        IN prev.err = ErrNil => prev.t <= ents[1].Term

DoAppend(leaderTerm, ents) ==
  /\ fatal = NoPanic
  /\ LET r == append(l, leaderTerm, ents) IN
     /\ l' = r.lg
     /\ fatal' = r.panic
     /\ call' = [op |-> "append", ok |-> (r.panic = NoPanic)]
  /\ validated' = (validated /\ ValidSlice(l, ents))
  /\ UNCHANGED storage

DoMaybeAppend(leaderTerm, prevIndex, prevTerm, cmt, ents) ==
  /\ fatal = NoPanic
  /\ LET r == maybeAppend(l, leaderTerm, prevIndex, prevTerm, cmt, ents) IN
     /\ l' = r.lg
     /\ fatal' = r.panic
     /\ call' = [op |-> "maybeAppend", ok |-> r.ok]
  /\ validated' = (validated /\ ValidSlice(l, ents))
  /\ UNCHANGED storage

DoCommitTo(leaderTerm, tocommit) ==
  /\ fatal = NoPanic
  /\ l' = commitTo(l, leaderTerm, tocommit)
  /\ call' = [op |-> "commitTo", ok |-> TRUE]
  /\ UNCHANGED <<storage, fatal, validated>>

DoMaybeCommit(leaderTerm, maxIndex, t) ==
  /\ fatal = NoPanic
  /\ LET r == maybeCommit(l, leaderTerm, maxIndex, t) IN
     /\ l' = r.lg
     /\ call' = [op |-> "maybeCommit", ok |-> r.ret]
  /\ UNCHANGED <<storage, fatal, validated>>

DoAcceptApplying(i, size, allowUnstable) ==
  /\ fatal = NoPanic
  /\ l.applyingEntsSize + size <= MaxSize
  /\ LET r == acceptApplying(l, i, size, allowUnstable) IN
     /\ l' = r.lg
     /\ fatal' = r.panic
     /\ call' = [op |-> "acceptApplying", ok |-> (r.panic = NoPanic)]
  /\ UNCHANGED <<storage, validated>>

DoAppliedTo(i, size) ==
  /\ fatal = NoPanic
  /\ LET r == appliedTo(l, i, size) IN
     /\ l' = r.lg
     /\ fatal' = r.panic
     /\ call' = [op |-> "appliedTo", ok |-> (r.panic = NoPanic)]
  /\ UNCHANGED <<storage, validated>>

\* a call of nextCommittedEnts: it writes nothing, and may panic
DoNextCommittedEnts(allowUnstable) ==
  /\ fatal = NoPanic
  /\ LET r == nextCommittedEnts(l, allowUnstable) IN
     /\ fatal' = r.panic
     /\ call' = [op |-> "nextCommittedEnts", ok |-> (r.ents # <<>>)]
  /\ UNCHANGED <<storage, l, validated>>

\* The driver hands the application the entries nextCommittedEnts returns, and
\* accepts them: acceptApplying(last returned index, their total size).
DoDeliver(allowUnstable) ==
  /\ fatal = NoPanic
  /\ LET r == nextCommittedEnts(l, allowUnstable) IN
     /\ r.panic = NoPanic /\ r.ents # <<>>
     /\ LET a == acceptApplying(l, r.ents[Len(r.ents)].Index, entsSize(r.ents),
                                allowUnstable)
        IN /\ l' = a.lg
           /\ fatal' = a.panic
           /\ call' = [op |-> "deliver", ok |-> (a.panic = NoPanic)]
  /\ UNCHANGED <<storage, validated>>

\* a call of findConflictByTerm: it writes nothing
DoFindConflictByTerm(index, t) ==
  /\ fatal = NoPanic
  /\ call' = [op |-> "findConflictByTerm",
              ok |-> (findConflictByTerm(l, index, t)[1] # 0)]
  /\ UNCHANGED <<storage, l, fatal, validated>>

DoAcceptUnstable ==
  /\ fatal = NoPanic
  /\ l' = acceptUnstable(l)
  /\ call' = [op |-> "acceptUnstable", ok |-> TRUE]
  /\ UNCHANGED <<storage, fatal, validated>>

\* The driver writes to Storage what acceptUnstable handed it: the snapshot
\* in progress, then the entries in progress [offset, offsetInProgress).
Persist ==
  /\ fatal = NoPanic
  /\ LET u == l.unstable
         s1 == IF u.snapshot # <<>> /\ u.snapshotInProgress
               THEN Storage_ApplySnapshot(storage, u.snapshot[1]) ELSE storage
         n == Min(u.offsetInProgress - u.offset, Len(u.entries))
     IN /\ u.snapshotInProgress \/ n > 0
        /\ storage' = Storage_Append(s1, SubSeq(u.entries, 1, n))
  /\ call' = [op |-> "persist", ok |-> TRUE]
  /\ UNCHANGED <<l, fatal, validated>>

\* the unstable entries up to index i are in Storage
Persisted(u, i) ==
  \A j \in u.offset..i :
     j <= u.offset + Len(u.entries) - 1 =>
       Storage_Term(j) = [t |-> u.entries[j - u.offset + 1].Term, err |-> ErrNil]

\* The driver acknowledges a write of the entry (i, t): the entry is in
\* Storage, and so is every unstable entry the acknowledgement releases.
DoStableTo(i, t) ==
  /\ fatal = NoPanic
  /\ i >= Storage_FirstIndex
  /\ Storage_Term(i) = [t |-> t, err |-> ErrNil]
  /\ unstable_stableTo(l.unstable, i, t) # l.unstable => Persisted(l.unstable, i)
  /\ l' = stableTo(l, i, t)
  /\ call' = [op |-> "stableTo", ok |-> TRUE]
  /\ UNCHANGED <<storage, fatal, validated>>

\* The driver acknowledges that the snapshot at index i is in Storage.
DoStableSnapTo(i) ==
  /\ fatal = NoPanic
  /\ storage.snap.Index >= i
  /\ l' = stableSnapTo(l, i)
  /\ call' = [op |-> "stableSnapTo", ok |-> TRUE]
  /\ UNCHANGED <<storage, fatal, validated>>

DoRestore(s) ==
  /\ fatal = NoPanic
  /\ l' = restore(l, s)
  /\ call' = [op |-> "restore", ok |-> TRUE]
  /\ UNCHANGED <<storage, fatal, validated>>

Indexes == 0..MaxIndex
Terms == 1..MaxTerm

\* entry slices: consecutive indices from first, within the index bound
EntsFrom(first) ==
  {MkEnts(first, ts) : ts \in {x \in TermSeqs(MaxEnts) : first + Len(x) - 1 <= MaxIndex}}

\* maybeAppend returns before it reads committed and ents when it rejects the
\* call, so one value of each stands for all of them there
Rejects(lt, prevIndex, prevTerm) ==
  lt < l.leaderTerm \/ ~matchTerm(l, prevIndex, prevTerm)

CmtArgs(lt, prevIndex, prevTerm) ==
  IF Rejects(lt, prevIndex, prevTerm) THEN {0} ELSE Indexes

EntsArgs(lt, prevIndex, prevTerm) ==
  IF Rejects(lt, prevIndex, prevTerm) THEN {<<>>} ELSE EntsFrom(prevIndex + 1)

\* the operations that replicate, persist and commit the log
NextAppend ==
  \/ \E lt \in Terms, first \in 1..MaxIndex : \E ents \in EntsFrom(first) :
        DoAppend(lt, ents)
  \/ \E lt \in Terms, prevIndex \in Indexes, prevTerm \in 0..MaxTerm :
        \E cmt \in CmtArgs(lt, prevIndex, prevTerm),
           ents \in EntsArgs(lt, prevIndex, prevTerm) :
          DoMaybeAppend(lt, prevIndex, prevTerm, cmt, ents)
  \/ \E lt \in Terms, tocommit \in Indexes : DoCommitTo(lt, tocommit)
  \/ \E lt \in Terms, maxIndex \in Indexes, t \in 0..MaxTerm :
        DoMaybeCommit(lt, maxIndex, t)
  \/ DoAcceptUnstable
  \/ Persist
  \/ \E i \in 1..MaxIndex, t \in Terms : DoStableTo(i, t)
  \/ \E i \in 1..MaxIndex : DoStableSnapTo(i)
  \/ \E i \in 1..MaxIndex, t \in Terms : DoRestore(Entry(i, t))

\* the operations that move the apply cursors
NextApply ==
  \/ \E i \in Indexes, size \in 0..MaxSize, allowUnstable \in BOOLEAN :
        DoAcceptApplying(i, size, allowUnstable)
  \/ \E i \in Indexes, size \in 0..MaxSize : DoAppliedTo(i, size)

Next == NextAppend \/ NextApply

Spec == Init /\ [][Next]_vars

\* acceptApplying and appliedTo write only applying, applied, applyingEntsSize
\* and applyingEntsPaused, which no operation of NextAppend reads
SpecAppend == Init /\ [][NextAppend]_vars

\* the operations that move committed, applying and applied, over a log that
\* only append fills
NextCursors ==
  \/ \E lt \in Terms, first \in 1..MaxIndex : \E ents \in EntsFrom(first) :
        DoAppend(lt, ents)
  \/ \E lt \in Terms, tocommit \in Indexes : DoCommitTo(lt, tocommit)
  \/ \E i \in 1..MaxIndex, t \in Terms : DoRestore(Entry(i, t))
  \/ NextApply

SpecCursors == Init /\ [][NextCursors]_vars

\* the budgets a log is constructed with: none, one that one entry fits in
\* and two do not, and noLimit
ApplyingSizes == {0, EntrySize + 1, noLimit}

\* the sizes the application acknowledges
AckSizes == {k * EntrySize : k \in 0..MaxIndex}

InitApply ==
  /\ storage \in InitStorages
  /\ l \in {newLogWithSize(m) : m \in ApplyingSizes}
  /\ call = [op |-> "newLog", ok |-> TRUE]
  /\ fatal = NoPanic
  /\ validated = TRUE

\* entries of the first term only: terms play no part in the delivery
EntsOfTerm1(first) == {e \in EntsFrom(first) : \A k \in 1..Len(e) : e[k].Term = 1}

\* the delivery of committed entries to the application, under the budget,
\* over a log that one leader fills, at its end, that the driver persists, and
\* that is restored only from a snapshot ahead of its commit index
NextDelivery ==
  \/ \E ents \in EntsOfTerm1(lastIndex(l) + 1) : DoAppend(1, ents)
  \/ \E tocommit \in Indexes : DoCommitTo(1, tocommit)
  \/ DoAcceptUnstable
  \/ Persist
  \/ \E i \in 1..MaxIndex : DoStableTo(i, 1)
  \/ \E i \in 1..MaxIndex : DoStableSnapTo(i)
  \/ \E i \in (l.committed + 1)..MaxIndex : DoRestore(Entry(i, 1))
  \/ \E allowUnstable \in BOOLEAN : DoNextCommittedEnts(allowUnstable)
  \/ \E allowUnstable \in BOOLEAN : DoDeliver(allowUnstable)
  \/ \E i \in Indexes, size \in AckSizes : DoAppliedTo(i, size)

SpecDelivery == InitApply /\ [][NextDelivery]_vars

\* The driver acknowledges everything it accepted: appliedTo(applying, size of
\* the outstanding entries).
DoAppliedAll == DoAppliedTo(l.applying, l.applyingEntsSize)

\* the steps of a driver that only applies: it takes nextCommittedEnts(true),
\* accepts what it got, and acknowledges it
ApplyStep ==
  \/ DoNextCommittedEnts(TRUE)
  \/ DoDeliver(TRUE)
  \/ DoAppliedAll

\* the delivery, with a driver that does not stop applying
SpecProgress ==
  /\ InitApply
  /\ [][NextDelivery]_vars
  /\ WF_vars(DoNextCommittedEnts(TRUE))
  /\ WF_vars(DoDeliver(TRUE))
  /\ WF_vars(DoAppliedAll)

\* entries of one term
EntsOfTerm(t, first) == {e \in EntsFrom(first) : \A k \in 1..Len(e) : e[k].Term = t}

\* the indices a leader of term lt may write its entries from: the end of the
\* log when it is the leader the log follows, any index above committed (a
\* truncation of the entries of older leaders) when it is a newer one
AppendFrom(lt) ==
  IF lt = l.leaderTerm THEN {lastIndex(l) + 1}
  ELSE IF lt > l.leaderTerm THEN (l.committed + 1)..(lastIndex(l) + 1)
  ELSE {}

\* the delivery without restore: leaders of several terms append and commit,
\* the driver persists, delivers and acknowledges
NextOrder ==
  \/ \E lt \in Terms : \E first \in AppendFrom(lt) : \E ents \in EntsOfTerm(lt, first) :
        DoAppend(lt, ents)
  \/ \E lt \in Terms, tocommit \in Indexes : DoCommitTo(lt, tocommit)
  \/ DoAcceptUnstable
  \/ Persist
  \/ \E i \in 1..MaxIndex, t \in Terms : DoStableTo(i, t)
  \/ \E allowUnstable \in BOOLEAN : DoNextCommittedEnts(allowUnstable)
  \/ \E allowUnstable \in BOOLEAN : DoDeliver(allowUnstable)
  \/ \E i \in Indexes, size \in AckSizes : DoAppliedTo(i, size)

SpecOrder == InitApply /\ [][NextOrder]_vars

\* the query a leader resolves conflicts by, over a log that appends fill,
\* the driver persists and snapshots compact
NextConflict ==
  \/ \E lt \in Terms, first \in 1..MaxIndex : \E ents \in EntsFrom(first) :
        DoAppend(lt, ents)
  \/ DoAcceptUnstable
  \/ Persist
  \/ \E i \in 1..MaxIndex, t \in Terms : DoStableTo(i, t)
  \/ \E i \in 1..MaxIndex : DoStableSnapTo(i)
  \/ \E i \in 1..MaxIndex, t \in Terms : DoRestore(Entry(i, t))
  \/ \E index \in 0..(MaxIndex + 1), t \in 0..MaxTerm : DoFindConflictByTerm(index, t)

SpecConflict == Init /\ [][NextConflict]_vars

\* ---- C1 --------------------------------------------------------------------
\* C1: in every state reached without a panic, applied <= applying <= committed.
C1_CursorsOrdered ==
  fatal = NoPanic => (l.applied <= l.applying /\ l.applying <= l.committed)

\* ---- the calls a state is examined under ---------------------------------
AllEnts == UNION {EntsFrom(first) : first \in 1..MaxIndex}

AppendCalls == {[lt |-> lt, ents |-> e] : lt \in Terms, e \in AllEnts}

MaybeAppendCalls ==
  UNION {{[lt |-> lt, prevIndex |-> p, prevTerm |-> pt, cmt |-> c, ents |-> e] :
            lt \in Terms, pt \in 0..MaxTerm, c \in Indexes, e \in EntsFrom(p + 1)} :
         p \in Indexes}

\* the result of maybeAppend for a call c in the current state
MaybeAppendOf(c) == maybeAppend(l, c.lt, c.prevIndex, c.prevTerm, c.cmt, c.ents)

\* c passes the two checks that reject a call (log.go:150, log.go:162)
PassesChecks(c) ==
  /\ c.lt >= l.leaderTerm
  /\ term(l, c.prevIndex) = [t |-> c.prevTerm, err |-> ErrNil]

\* ---- C2 --------------------------------------------------------------------
\* C2: in every state reached without a panic, committed <= lastIndex().
C2_CommittedWithinLog == fatal = NoPanic => l.committed <= lastIndex(l)

\* stableTo has released every unstable entry, and the commit index is the
\* last index of the log, now read from Storage
C2_Witness ==
  /\ call.op = "stableTo"
  /\ l.unstable.entries = <<>> /\ l.unstable.snapshot = <<>>
  /\ l.unstable.offset = Storage_LastIndex + 1
  /\ l.committed = MaxIndex /\ lastIndex(l) = MaxIndex

\* ---- C3 --------------------------------------------------------------------
\* the terms at the committed indices are the same in lg as in the log
CommittedKept(lg) == \A i \in 1..l.committed : term(lg, i) = term(l, i)

\* C3 as stated: no append or maybeAppend changes term(i) for i <= committed;
\* a maybeAppend whose conflict index ci has 0 < ci <= committed, and an append
\* whose first entry index is <= committed, panic and leave the log as it was.
C3_AsStated ==
  /\ \A c \in AppendCalls :
       LET r == append(l, c.lt, c.ents) IN
       /\ CommittedKept(r.lg)
       /\ (c.ents # <<>> /\ c.ents[1].Index <= l.committed)
             => (r.panic # NoPanic /\ r.lg = l)
  /\ \A c \in MaybeAppendCalls :
       LET r == MaybeAppendOf(c)
           ci == findConflict(l, c.ents)
       IN /\ CommittedKept(r.lg)
          /\ (PassesChecks(c) /\ 0 < ci /\ ci <= l.committed)
                => (r.panic # NoPanic /\ r.lg = l)

\* C3 (amended): as C3, with the append part for an append whose leaderTerm is
\* not below the log's leaderTerm; an append from an older leader returns
\* without a panic, and without touching the log.
C3_CommittedNeverOverwritten ==
  /\ \A c \in AppendCalls :
       LET r == append(l, c.lt, c.ents) IN
       /\ CommittedKept(r.lg)
       /\ (c.lt >= l.leaderTerm /\ c.ents # <<>> /\ c.ents[1].Index <= l.committed)
             => (r.panic # NoPanic /\ r.lg = l)
       /\ c.lt < l.leaderTerm => (r.panic = NoPanic /\ r.lg = l)
  /\ \A c \in MaybeAppendCalls :
       LET r == MaybeAppendOf(c)
           ci == findConflict(l, c.ents)
       IN /\ CommittedKept(r.lg)
          /\ (PassesChecks(c) /\ 0 < ci /\ ci <= l.committed)
                => (r.panic # NoPanic /\ r.lg = l)

\* a maybeAppend has panicked on a conflict with a committed entry
C3_Witness ==
  /\ call.op = "maybeAppend"
  /\ fatal = "conflict with committed entry"
  /\ l.committed >= 1

\* ---- C4 --------------------------------------------------------------------
\* C4: a maybeAppend that returns ok = true returns prevIndex + len(ents), and
\* afterwards matchTerm(e.Index, e.Term) holds for every entry e of ents.
C4_AcceptedEntriesPresent ==
  \A c \in MaybeAppendCalls :
     LET r == MaybeAppendOf(c) IN
     r.ok =>
       /\ r.lastnewi = c.prevIndex + Len(c.ents)
       /\ \A k \in 1..Len(c.ents) : matchTerm(r.lg, c.ents[k].Index, c.ents[k].Term)

\* an accepted maybeAppend has replaced an entry that Storage holds with another
\* term: the unstable log starts at or below the last index of Storage
C4_Witness ==
  /\ call.op = "maybeAppend" /\ call.ok
  /\ l.unstable.entries # <<>>
  /\ l.unstable.offset <= Storage_LastIndex
  /\ Storage_Term(l.unstable.offset).t # l.unstable.entries[1].Term

\* ---- C5 --------------------------------------------------------------------
\* C5: after a maybeAppend that returns ok = true, committed is at least
\* min(committedArg, prevIndex + len(ents)).
C5_CommitAdvanced ==
  \A c \in MaybeAppendCalls :
     LET r == MaybeAppendOf(c) IN
     r.ok => r.lg.committed >= Min(c.cmt, c.prevIndex + Len(c.ents))

\* ---- C6 --------------------------------------------------------------------
\* C6: a maybeAppend with leaderTerm below the log's leaderTerm, or whose
\* prevIndex has another term than prevTerm or no term (compacted, unavailable),
\* returns (0, false), does not panic, and leaves every field of the log as it
\* was.
C6_RejectedUnchanged ==
  \A c \in MaybeAppendCalls :
     (\/ c.lt < l.leaderTerm
      \/ term(l, c.prevIndex) # [t |-> c.prevTerm, err |-> ErrNil])
       => MaybeAppendOf(c) = [lg |-> l, panic |-> NoPanic, lastnewi |-> 0, ok |-> FALSE]

\* a maybeAppend was rejected in a log that has a leaderTerm to be stale
\* against, a compacted index 0 and an unavailable index
C6_Witness ==
  /\ call.op = "maybeAppend" /\ ~call.ok /\ fatal = NoPanic
  /\ l.leaderTerm = MaxTerm
  /\ term(l, 0).err = ErrCompacted
  /\ term(l, MaxIndex).err = ErrUnavailable

\* ---- C7 --------------------------------------------------------------------
\* C7: after a maybeAppend that returns ok = true for leader term t, the log's
\* leaderTerm is t; and no step decreases leaderTerm.
C7_LeaderTermOfLastAccepted ==
  [][/\ \A c \in MaybeAppendCalls :
          LET r == MaybeAppendOf(c) IN r.ok => r.lg.leaderTerm = c.lt
     /\ l.leaderTerm <= l'.leaderTerm]_vars

\* ---- C8 --------------------------------------------------------------------
\* C8: every index in [firstIndex()-1, lastIndex()] whose term is known has
\* term(i) <= leaderTerm. It is stated here for the runs in which every slice
\* appended was validated, which are among the runs of the claim.
C8_TermsWithinLeaderTerm ==
  validated =>
    \A i \in (firstIndex(l) - 1)..lastIndex(l) :
       term(l, i).err = ErrNil => term(l, i).t <= l.leaderTerm

\* ---- C9 --------------------------------------------------------------------
\* term(i) is defined on [firstIndex(), lastIndex()] and does not decrease in i
TermsDefinedAndOrdered(lg) ==
  \A i \in firstIndex(lg)..lastIndex(lg) :
     /\ term(lg, i).err = ErrNil
     /\ \A j \in i..lastIndex(lg) : term(lg, i).t <= term(lg, j).t

\* C9 as stated: in every state reached without a panic, term(i) is defined on
\* [firstIndex(), lastIndex()] and non-decreasing in i.
C9_AsStated == fatal = NoPanic => TermsDefinedAndOrdered(l)

\* C9 (amended): the same, in the states reached by append and maybeAppend
\* calls whose slices were validated by the caller: terms that do not regress,
\* from the term of the entry the slice is appended after.
C9_TermsOrdered == (fatal = NoPanic /\ validated) => TermsDefinedAndOrdered(l)

\* validated appends from two leaders have left entries of two terms in the log
C9_Witness ==
  /\ fatal = NoPanic /\ validated
  /\ call.op \in {"append", "maybeAppend"}
  /\ lastIndex(l) = MaxIndex /\ firstIndex(l) = 1
  /\ term(l, 1).t < term(l, MaxIndex).t

\* ---- C10 -------------------------------------------------------------------
\* C10: commitTo(t, c) returns the log as it was when t is not the log's
\* leaderTerm; when it is, committed becomes max(committed, min(c, lastIndex()))
\* and no other field changes.
C10_CommitToContract ==
  \A t \in 0..MaxTerm, c \in 0..(MaxIndex + 1) :
     commitTo(l, t, c) =
       IF t # l.leaderTerm THEN l
       ELSE [l EXCEPT !.committed = Max(l.committed, Min(c, lastIndex(l)))]

\* commitTo has moved committed, in a log where a larger commit index is
\* clamped, a smaller one is kept out by max, and another term is ignored
C10_Witness ==
  /\ call.op = "commitTo"
  /\ l.committed = 1 /\ lastIndex(l) = MaxIndex
  /\ l.leaderTerm = MaxTerm

\* ---- C11 -------------------------------------------------------------------
\* C11: no step other than a restore decreases committed, applying or applied;
\* and after restore(s) committed is at least the index of s, the snapshot the
\* unstable log then holds.
C11_CursorsMonotone ==
  [][/\ call'.op # "restore" =>
          /\ l.committed <= l'.committed
          /\ l.applying <= l'.applying
          /\ l.applied <= l'.applied
     /\ call'.op = "restore" =>
          l'.committed >= l'.unstable.snapshot[1].Index]_vars

\* ---- C12 -------------------------------------------------------------------
\* while the unstable log holds a snapshot, nothing is delivered
NothingWhileSnapshot(lg) ==
  lg.unstable.snapshot # <<>> =>
    \A allowUnstable \in BOOLEAN :
       /\ nextCommittedEnts(lg, allowUnstable) = [ents |-> <<>>, panic |-> NoPanic]
       /\ ~hasNextCommittedEnts(lg, allowUnstable)

\* C12: in every state where the unstable log holds a snapshot, pending or in
\* progress, nextCommittedEnts returns no entries and hasNextCommittedEnts
\* returns false, for both values of allowUnstable; restore leaves such a
\* state, and only stableSnapTo or stableTo ends it.
C12_NoEntriesWhileSnapshot ==
  [][/\ NothingWhileSnapshot(l) /\ NothingWhileSnapshot(l')
     /\ call'.op = "restore" => l'.unstable.snapshot # <<>>
     /\ (l.unstable.snapshot # <<>> /\ l'.unstable.snapshot = <<>>)
          => call'.op \in {"stableSnapTo", "stableTo"}]_vars

\* nextCommittedEnts was called and returned nothing, with a snapshot in
\* progress and committed entries that the application was not given
C12_Witness ==
  /\ call.op = "nextCommittedEnts" /\ ~call.ok /\ fatal = NoPanic
  /\ l.unstable.snapshot # <<>> /\ l.unstable.snapshotInProgress
  /\ ~l.applyingEntsPaused
  /\ l.applying < l.committed

\* ---- C13 -------------------------------------------------------------------
\* C13: in every state reached without a panic by deliveries (nextCommittedEnts
\* and the acceptApplying of what it returned) and appliedTo calls,
\* applyingEntsSize is at most maxApplyingEntsSize.
C13_WithinBudget == fatal = NoPanic => l.applyingEntsSize <= l.maxApplyingEntsSize

\* ---- C14 -------------------------------------------------------------------
\* an acceptApplying that leaves the size at or above the budget, or is given an
\* index below maxAppliableIndex, sets the latch
AcceptApplyingPauses(lg) ==
  \A i \in Indexes, size \in AckSizes, allowUnstable \in BOOLEAN :
     LET r == acceptApplying(lg, i, size, allowUnstable) IN
     (/\ r.panic = NoPanic
      /\ \/ r.lg.applyingEntsSize >= r.lg.maxApplyingEntsSize
         \/ i < maxAppliableIndex(lg, allowUnstable))
       => r.lg.applyingEntsPaused

\* while the latch is set nothing is delivered
NothingWhilePaused(lg) ==
  lg.applyingEntsPaused =>
    \A allowUnstable \in BOOLEAN :
       /\ nextCommittedEnts(lg, allowUnstable) = [ents |-> <<>>, panic |-> NoPanic]
       /\ ~hasNextCommittedEnts(lg, allowUnstable)

\* the committed entries that remain are delivered: those after applying, when
\* no snapshot is staged and a snapshot has not compacted them away
DeliveryResumes(lg) ==
  \A allowUnstable \in BOOLEAN :
     (/\ lg.unstable.snapshot = <<>>
      /\ firstIndex(lg) <= lg.applying + 1
      /\ lg.applying < maxAppliableIndex(lg, allowUnstable))
       => /\ hasNextCommittedEnts(lg, allowUnstable)
          /\ nextCommittedEnts(lg, allowUnstable).ents # <<>>

Snapshots == {Entry(i, t) : i \in 1..MaxIndex, t \in Terms}

\* C15: restore(s) sets committed to the index of s, makes firstIndex() that
\* index + 1 and lastIndex() that index, empties the unstable entries, stages s
\* as the snapshot that is next and not in progress, and changes no other
\* field of the log.
C15_RestoreEffect ==
  \A s \in Snapshots :
     LET r == restore(l, s) IN
     /\ r.committed = s.Index
     /\ firstIndex(r) = s.Index + 1
     /\ lastIndex(r) = s.Index
     /\ r.unstable.entries = <<>>
     /\ r.unstable.snapshot = <<s>> /\ unstable_nextSnapshot(r.unstable) = <<s>>
     /\ [r EXCEPT !.committed = l.committed, !.unstable = l.unstable] = l

\* restore has staged a snapshot below the last entry that Storage holds, in a
\* log that an append had given a leaderTerm
C15_Witness ==
  /\ call.op = "restore"
  /\ l.unstable.snapshot = <<Entry(1, MaxTerm)>>
  /\ l.committed = 1 /\ lastIndex(l) = 1 /\ firstIndex(l) = 2
  /\ Storage_LastIndex = MaxIndex
  /\ l.leaderTerm = 1

\* ---- C16 -------------------------------------------------------------------
\* C16: every entry that nextCommittedEnts returns has its index in
\* (applying, committed], and below unstable.offset when allowUnstable is
\* false; the entries are those of the log, in order from applying + 1.
C16_OnlyCommittedEntries ==
  \A allowUnstable \in BOOLEAN :
     LET ents == nextCommittedEnts(l, allowUnstable).ents IN
     \A k \in 1..Len(ents) :
        /\ ents[k].Index = l.applying + k
        /\ l.applying < ents[k].Index /\ ents[k].Index <= l.committed
        /\ ~allowUnstable => ents[k].Index < l.unstable.offset
        /\ matchTerm(l, ents[k].Index, ents[k].Term)

\* nextCommittedEnts has returned entries, in a log whose committed entries are
\* one stable and one unstable: only the stable one when allowUnstable is false
C16_Witness ==
  /\ call.op = "nextCommittedEnts" /\ call.ok
  /\ l.committed = 2 /\ l.applying = 0
  /\ l.unstable.offset = 2 /\ l.unstable.entries # <<>>
  /\ nextCommittedEnts(l, FALSE).ents = <<Entry(1, 1)>>
  /\ nextCommittedEnts(l, TRUE).ents = <<Entry(1, 1), Entry(2, 1)>>

\* ---- C17 -------------------------------------------------------------------
\* the indices j in 1..index whose term is at most t, or is not known
ConflictCandidates(index, t) ==
  {j \in 1..index : term(l, j).err # ErrNil \/ term(l, j).t <= t}

\* C17: findConflictByTerm(index, term) returns (j, t) with j the largest
\* index in 1..index whose term is <= term or is not known, and t the term of
\* j, 0 when it is not known; it returns (0, 0) when there is no such j; and
\* the call changes nothing of the log.
C17_FindConflictByTerm ==
  [][/\ \A index \in 0..(MaxIndex + 1), t \in 0..MaxTerm :
          LET r == findConflictByTerm(l, index, t)
              js == ConflictCandidates(index, t)
          IN IF js = {} THEN r = <<0, 0>>
             ELSE /\ r[1] \in js /\ \A j \in js : j <= r[1]
                  /\ r[2] = zeroTermOnOutOfBounds(term(l, r[1]))
     /\ call'.op = "findConflictByTerm" => (l' = l /\ storage' = storage)]_vars

\* findConflictByTerm was called on a log with the terms 1, 2 at the indices
\* 1, 2, where it steps from index 2 down to index 1 for the term 1
C17_Witness ==
  /\ call.op = "findConflictByTerm" /\ call.ok
  /\ firstIndex(l) = 1 /\ lastIndex(l) = 2
  /\ term(l, 1).t = 1 /\ term(l, 2).t = 2
  /\ findConflictByTerm(l, 2, 1) = <<1, 1>>
  /\ findConflictByTerm(l, 2, 0) = <<0, 0>>
  /\ findConflictByTerm(l, 3, 1) = <<3, 0>>

\* ---- C18 -------------------------------------------------------------------
\* C18: findConflict(ents) is 0 exactly when every entry of ents is in the log
\* with the same term. An accepted maybeAppend then leaves the entries of the
\* log, those above prevIndex + len(ents) too, as they were; otherwise it
\* leaves the entries below the conflict index as they were, and the log ends
\* at prevIndex + len(ents).
C18_ModifiesFromConflictOn ==
  \A c \in MaybeAppendCalls :
     LET r == MaybeAppendOf(c)
         ci == findConflict(l, c.ents)
     IN /\ (ci = 0) <=> \A k \in 1..Len(c.ents) :
                           matchTerm(l, c.ents[k].Index, c.ents[k].Term)
        /\ (r.ok /\ ci = 0) =>
              /\ r.lg.unstable = l.unstable
              /\ firstIndex(r.lg) = firstIndex(l) /\ lastIndex(r.lg) = lastIndex(l)
              /\ \A i \in 0..MaxIndex : term(r.lg, i) = term(l, i)
        /\ (r.ok /\ ci # 0) =>
              /\ \A i \in 0..(ci - 1) : term(r.lg, i) = term(l, i)
              /\ firstIndex(r.lg) = firstIndex(l)
              /\ lastIndex(r.lg) = c.prevIndex + Len(c.ents)

\* maybeAppend was accepted, and in the log it left a delayed append of the
\* first entry alone would be accepted and find no conflict, below the last
\* index
C18_Witness ==
  /\ call.op = "maybeAppend" /\ call.ok
  /\ firstIndex(l) = 1 /\ lastIndex(l) = 2
  /\ LET c == [lt |-> l.leaderTerm, prevIndex |-> 0, prevTerm |-> 0, cmt |-> 0,
               ents |-> <<Entry(1, term(l, 1).t)>>]
     IN c \in MaybeAppendCalls /\ MaybeAppendOf(c).ok /\ findConflict(l, c.ents) = 0

\* ---- C19 -------------------------------------------------------------------
\* C19: maybeCommit(leaderTerm, maxIndex, term) returns true exactly when
\* maxIndex > committed, term # 0 and the term at maxIndex, 0 when compacted or
\* unavailable, is term; when it returns true committed is maxIndex afterwards,
\* and when it returns false the log is as it was.
C19_MaybeCommitContract ==
  \A lt \in 0..MaxTerm, maxIndex \in 0..(MaxIndex + 1), t \in 0..MaxTerm :
     LET r == maybeCommit(l, lt, maxIndex, t)
         tm == term(l, maxIndex)
         at == IF tm.err = ErrNil THEN tm.t ELSE 0
     IN /\ r.ret <=> (maxIndex > l.committed /\ t # 0 /\ at = t)
        /\ r.ret => r.lg.committed = maxIndex
        /\ ~r.ret => r.lg = l

\* ---- C20 -------------------------------------------------------------------
\* C20: nextCommittedEnts never reaches its fatal branch for a budget that is
\* not positive: whatever maxApplyingEntsSize the log was built with, a clear
\* latch implies applyingEntsSize < maxApplyingEntsSize, so the remaining
\* budget is positive whenever the range (applying, maxAppliableIndex] is not
\* empty and the latch is clear; applyingEntsSize does not go below 0.
C20_BudgetPositive ==
  /\ fatal # "applying entry size not positive"
  /\ ~l.applyingEntsPaused => l.applyingEntsSize < l.maxApplyingEntsSize
  /\ \A allowUnstable \in BOOLEAN :
        (~l.applyingEntsPaused /\ l.applying < maxAppliableIndex(l, allowUnstable))
           => sizeSub(l.maxApplyingEntsSize, l.applyingEntsSize) > 0
  /\ l.applyingEntsSize >= 0

\* ---- C21 -------------------------------------------------------------------
\* the entry at index i is among the unstable entries of lg
InUnstable(lg, i) ==
  i >= lg.unstable.offset /\ i <= lg.unstable.offset + Len(lg.unstable.entries) - 1

UnstableTerm(lg, i) == lg.unstable.entries[i - lg.unstable.offset + 1].Term

\* ents are the last entries of the sequence s
IsSuffix(ents, s) ==
  Len(ents) <= Len(s) /\ SubSeq(s, Len(s) - Len(ents) + 1, Len(s)) = ents

\* stableTo(i, t) leaves lg as it was
Ignored(lg, i, t) ==
  LET r == stableTo(lg, i, t)
  IN /\ r.unstable.entries = lg.unstable.entries
     /\ nextUnstableEnts(r) = nextUnstableEnts(lg)
     /\ lastIndex(r) = lastIndex(lg)
     /\ \A j \in 0..(MaxIndex + 1) : term(r, j) = term(lg, j)

\* C21: a late acknowledgement drops nothing. When an append puts an entry of
\* another term at the index i of an unstable entry (i, tA), a following
\* stableTo(i, tA) is ignored: the appended entries stay in the unstable
\* buffer and nextUnstableEnts returns them, and lastIndex() and every term(j)
\* are as before the call. stableTo(i, t) with i outside the unstable entries
\* is ignored as well.
C21_LateAckIgnored ==
  /\ \A c \in AppendCalls :
        LET r == append(l, c.lt, c.ents)
        IN (c.lt >= l.leaderTerm /\ r.panic = NoPanic) =>
              \A k \in 1..Len(c.ents) :
                 LET i == c.ents[k].Index
                 IN (InUnstable(l, i) /\ UnstableTerm(l, i) # c.ents[k].Term) =>
                       /\ Ignored(r.lg, i, UnstableTerm(l, i))
                       /\ IsSuffix(c.ents, r.lg.unstable.entries)
                       /\ IsSuffix(c.ents, nextUnstableEnts(
                                     stableTo(r.lg, i, UnstableTerm(l, i))))
  /\ \A i \in 0..(MaxIndex + 1), t \in 0..MaxTerm :
        ~InUnstable(l, i) => Ignored(l, i, t)

\* stableTo was called, and the log begins with an unstable entry, not handed
\* to the driver yet, where Storage holds an entry of term MaxTerm, which only
\* the driver's write of an earlier append can have put there: the write that
\* was acknowledged is the one an append has replaced
C21_Witness ==
  /\ call.op = "stableTo"
  /\ l.unstable.offset = 1 /\ InUnstable(l, 1)
  /\ Storage_Term(1) = [t |-> MaxTerm, err |-> ErrNil]
  /\ UnstableTerm(l, 1) # MaxTerm
  /\ l.unstable.offsetInProgress = 1
  /\ nextUnstableEnts(l) = l.unstable.entries

\* ---- C22 -------------------------------------------------------------------
AllApplied == l.applied = l.applying /\ l.applying = l.committed

\* the panics of nextCommittedEnts (log.go:304, log.go:309)
DeliveryPanics ==
  {"applying entry size not positive",
   "unexpected error when getting unapplied entries"}

\* no snapshot is pending, and no call other than the driver's
\* nextCommittedEnts has panicked
Applicable ==
  /\ ~hasNextOrInProgressSnapshot(l)
  /\ fatal = NoPanic \/ fatal \in DeliveryPanics

\* C22: the latch never blocks the application for ever. Once no snapshot is
\* pending and the only steps are those of the applying driver
\* (nextCommittedEnts(true), acceptApplying of what it returned, appliedTo of
\* everything accepted), applied = applying = committed is reached, and stays.
C22_ApplyProgress ==
  (<>[][ApplyStep]_vars /\ <>[]Applicable) => <>[]AllApplied

\* ---- C23 -------------------------------------------------------------------
\* what nextCommittedEnts returns is a run of log entries from applying + 1
RunFromApplying(r) ==
  \A k \in 1..Len(r.ents) :
     /\ r.ents[k].Index = l.applying + k
     /\ matchTerm(l, r.ents[k].Index, r.ents[k].Term)

\* a delivery hands over the run that nextCommittedEnts returns, and moves
\* applying to its last index
DeliveredInOrder ==
  (call'.op = "deliver" /\ call'.ok) =>
     \E allowUnstable \in BOOLEAN :
        LET r == nextCommittedEnts(l, allowUnstable)
        IN /\ r.panic = NoPanic /\ r.ents # <<>>
           /\ RunFromApplying(r)
           /\ l'.applying = l.applying + Len(r.ents)

\* the step is an appliedTo of an index above applying
AckAhead == call'.op = "appliedTo" /\ call'.ok /\ l'.applied > l.applying

\* C23 as stated: every result of nextCommittedEnts is a run of log entries
\* from applying + 1, and with each delivery followed by its acceptApplying,
\* and no restore, applying moves only by a delivery, to the last index
\* delivered, whatever append, commitTo, stableTo and appliedTo calls come
\* between: no index is returned twice and none is skipped.
C23_AsStated ==
  [][/\ \A allowUnstable \in BOOLEAN :
           RunFromApplying(nextCommittedEnts(l, allowUnstable))
     /\ DeliveredInOrder
     /\ ~(call'.op = "deliver" /\ call'.ok) => l'.applying = l.applying]_vars

\* C23: every result of nextCommittedEnts is a run of log entries from
\* applying + 1, and with each delivery followed by its acceptApplying, and no
\* restore, applying moves only by a delivery, to the last index delivered,
\* or by an appliedTo of an index above applying, which skips the entries up to
\* that index: no index is returned twice, and none is skipped while the
\* indices acknowledged are at most applying.
C23_DeliveredInOrder ==
  [][/\ \A allowUnstable \in BOOLEAN :
           RunFromApplying(nextCommittedEnts(l, allowUnstable))
     /\ DeliveredInOrder
     /\ ~(call'.op = "deliver" /\ call'.ok) =>
           \/ l'.applying = l.applying
           \/ AckAhead /\ l'.applying = l'.applied]_vars

\* the second of two deliveries, of one entry each and both counted in
\* applyingEntsSize, with an append of a newer leader and an acknowledgement
\* of the first entry between them
C23_Witness ==
  /\ call.op = "deliver" /\ call.ok
  /\ firstIndex(l) = 1
  /\ l.applying = 2 /\ l.applied = 1
  /\ l.applyingEntsSize = 2 * EntrySize
  /\ term(l, 1) = [t |-> 1, err |-> ErrNil]
  /\ term(l, 2) = [t |-> MaxTerm, err |-> ErrNil]

====
